---- MODULE Spec2Model ----
(***************************************************************************)
(* The <my-audio-rt-element> custom element: a WebRTC session with a       *)
(* realtime endpoint, negotiated with an ephemeral key.                    *)
(*                                                                         *)
(* The repository holds several revisions of the element.  Three of them   *)
(* differ in control flow and are modelled, selected by `variant`:         *)
(*   "Main"         src/myAudioRealtimeElement.js lines 1-275              *)
(*                  (handleClick -> getAudioAccess -> startRealtime, with  *)
(*                  toggleMute and cancelChat; this.pc is a field)         *)
(*   "Concurrent"   src/unnamed/part_001 (getUserMedia and the key request *)
(*                  are started together; pc is a local constant)          *)
(*   "CrossContext" src/myAudioRealtimeElement.js lines 281-409 (the key   *)
(*                  comes in a window message; pc is a local constant)     *)
(*                                                                         *)
(* JavaScript runs handlers to completion: an action is one handler, or    *)
(* the continuation of an async function from one settled await to the     *)
(* next pending one.  The browser (getUserMedia, fetch, RTCPeerConnection, *)
(* the injected key function, the parent window) is the environment: each  *)
(* pending operation settles with any outcome the platform allows, or not  *)
(* at all.                                                                 *)
(***************************************************************************)
EXTENDS Integers, Sequences, FiniteSets, TLC

\* ---------------------------------------------------------------- bounds
MaxTasks == 1      \* connect clicks, and key messages, of a run of Spec
MaxAgain == 2      \* connect clicks, and key messages, of a run of SpecAgain
MaxEvents == 2     \* transport events (data-channel messages, open, track)
MaxTracks == 2     \* audio tracks of every captured stream

\* ---------------------------------------------------------------- values
Null == 0                       \* null / undefined object reference
Absent == "<absent>"            \* a property the object does not have
Pending == "<pending>"          \* a promise that has not settled

Variants == {"Main", "Concurrent", "CrossContext"}

\* JavaScript ToBoolean of a string-or-missing property (if (x.error), if (event.delta)).
Truthy(x) == x \notin {Absent, ""}

\* Credential payloads: what the injected function resolves with, what the
\* fallback endpoint's JSON decodes to, what the parent posts as `key`.
Payloads ==
    { [error |-> Absent,   secret |-> "ek_1"],
      [error |-> "denied", secret |-> Absent],
      [error |-> "",       secret |-> "ek_1"],
      [error |-> "denied", secret |-> "ek_1"],
      [error |-> Absent,   secret |-> Absent] }

NoPayload == [error |-> Absent, secret |-> Absent]

\* A credential value that is null or undefined rather than an object.
NullPayload == [error |-> "<null>", secret |-> "<null>"]

\* HTTP responses: status, statusText (empty over HTTP/2).
Responses ==
    { [status |-> "200", statusText |-> "OK"],
      [status |-> "401", statusText |-> "Unauthorized"],
      [status |-> "500", statusText |-> ""] }

NoResponse == [status |-> Absent, statusText |-> Absent]

\* Response.ok: the status is in 200..299.
ResponseOk(r) == r.status \in {"200"}

\* Outcomes of the credential request of a task.
\*   kind "payload": the promise resolves with a payload (for the HTTP fallback,
\*                   an ok response whose JSON decodes to it)
\*   kind "http":    the HTTP fallback answers with a non-success response
\*   kind "reject":  the promise rejects (the function throws, the network fails)
KeyOutcomes(via) ==
    {[kind |-> "payload", payload |-> p, resp |-> NoResponse] : p \in Payloads}
    \cup {[kind |-> "reject", payload |-> NoPayload, resp |-> NoResponse]}
    \cup (IF via = "http"
          THEN {[kind |-> "http", payload |-> NoPayload, resp |-> r] :
                    r \in {x \in Responses : ~ResponseOk(x)}}
          ELSE {})

NoOutcome == [kind |-> Pending, payload |-> NoPayload, resp |-> NoResponse]

\* ---------------------------------------------------------------- state
VARIABLES
    variant,               \* the revision of the element that is loaded
    mediaSupported,        \* navigator.mediaDevices.getUserMedia exists
    ephemeralKeyFunction,  \* this.ephemeralKeyFunction is set (TRUE) or null
    ephemeralKeyData,      \* this.ephemeralKeyData (CrossContext): NullPayload or a payload
    localStream,           \* this.localStream: Null or a stream id
    pc,                    \* this.pc: Null or a connection id
    errEl,                 \* #err textContent, as its fragments
    logEl,                 \* #logArea textContent, as its fragments
    transcriptEl,          \* #transcript textContent, as its fragments
    muteBtn,               \* #muteBtn textContent
    streams,               \* heap: MediaStream objects, by id
    conns,                 \* heap: RTCPeerConnection objects, by id
    tasks,                 \* async invocations and where each is suspended
    lastCmd,               \* the last user command: "none", "connect", "cancel"
    events                 \* transport events delivered so far

vars == <<variant, mediaSupported, ephemeralKeyFunction, ephemeralKeyData,
          localStream, pc, errEl, logEl, transcriptEl, muteBtn, streams, conns,
          tasks, lastCmd, events>>

\* ---------------------------------------------------------------- objects
\* A captured MediaStream: its audio tracks, each with `enabled` and whether
\* stop() was called on it.
NewStream(n) == [i \in 1..n |-> [enabled |-> TRUE, stopped |-> FALSE]]

\* A new RTCPeerConnection, created by task `a`.
NewConn(a) ==
    [by |-> a, closed |-> FALSE, senders |-> Null, channel |-> FALSE,
     localDesc |-> Null, remoteDesc |-> Null]

\* A new async invocation, suspended at `at`.
\*   at      where it is suspended, or "connected" / "failed" when it has ended
\*   via     credential strategy it used: "fn", "http", "message", or "" (none yet)
\*   keyRes  outcome its credential promise settled with, not yet awaited
\*   stream  the stream it captured (Null if none)
\*   on      the connection its pending operation was invoked on / its `pc` constant
\*   made    the connection it constructed (Null if none)
\*   key     its ephemeralKey constant
\*   bearer  the secret it put in the Authorization header of the signaling POST
\*   payload the credential payload it received
\*   offer   the offer it holds: the id of the connection that created it
\*   resp    the signaling response it received
\*   answer  the answer it holds: the id of the offer it answers
\*   err     what it wrote to #err when it ended
\*   ev      what it has done so far, in order
NewTask(at) ==
    [at |-> at, via |-> "", keyRes |-> NoOutcome, stream |-> Null, on |-> Null,
     made |-> Null, key |-> Absent, bearer |-> Absent, payload |-> NoPayload,
     offer |-> Null,
     resp |-> NoResponse, answer |-> Null, err |-> <<>>, ev |-> <<>>]

Range(s) == {s[i] : i \in DOMAIN s}

Task == DOMAIN tasks
Conn == DOMAIN conns

\* The invocations that are suspended at an await.
Suspended == {a \in Task : tasks[a].at \notin {"failed", "connected", "captured"}}

\* The connect clicks so far (CrossContext: every other invocation is a key message).
Clicks == {a \in Task : tasks[a].via # "message"}

\* Bound on the connect button: at most `limit` clicks.
MayClick(limit) == Cardinality(Clicks) < limit

Did(a, e) == e \in Range(tasks[a].ev)

\* How many times e occurs in the history ev.
CountIn(ev, e) == Cardinality({i \in DOMAIN ev : ev[i] = e})

\* Position of the first occurrence of e in task a's history (0 if none).
When(a, e) ==
    IF Did(a, e) THEN CHOOSE i \in DOMAIN tasks[a].ev :
                         /\ tasks[a].ev[i] = e
                         /\ \A j \in 1..(i-1) : tasks[a].ev[j] # e
    ELSE 0

Init ==
    /\ variant \in Variants
    /\ mediaSupported \in BOOLEAN
    /\ ephemeralKeyFunction = FALSE
    /\ ephemeralKeyData = NullPayload
    /\ localStream = Null
    /\ pc = Null
    /\ errEl = <<>>
    /\ logEl = <<>>
    /\ transcriptEl = <<>>
    /\ muteBtn = IF variant = "Main" THEN "Mute Conversation" ELSE Absent
    /\ streams = <<>>
    /\ conns = <<>>
    /\ tasks = <<>>
    /\ lastCmd = "none"
    /\ events = 0


env == <<variant, mediaSupported>>

\* ---------------------------------------------------------------- errors
\* The catch block of startRealtime: `Realtime error: ${err.name} - ${err.message}`.
RealtimeError(name, message) == <<"Realtime error: ", name, " - ">> \o message

\* Reading a property of null or undefined.
TypeErrorOn(what) == RealtimeError("TypeError", <<"Cannot read properties of ", what>>)

\* Task a ends without a session: it wrote e to #err.
Ended(a, e, evs) ==
    [tasks EXCEPT ![a].at = "failed", ![a].err = e, ![a].ev = @ \o evs]

\* ---------------------------------------------------------------- credential
\* A requestEphemeralKey that always uses the GET.
RequestEphemeralKeyHttpOnly == "http"

\* requestEphemeralKey: the injected function if one is set, else the GET.
RequestEphemeralKey == IF ephemeralKeyFunction THEN "fn" ELSE "http"

\* startRealtime goes on to negotiate with the outcome o of the key request:
\* the promise resolved, `ephemeralData.error` is falsy and
\* `ephemeralData.client_secret.value` can be read.
KeyAccepted(o) ==
    /\ o.kind = "payload"
    /\ o.payload # NullPayload
    /\ ~Truthy(o.payload.error)
    /\ o.payload.secret # Absent

\* What startRealtime writes to #err for an outcome it does not accept.
KeyError(o) ==
    CASE o.kind = "reject" ->
            RealtimeError("Error", <<"key request failed">>)
      [] o.kind = "http" ->
            RealtimeError("Error", <<"HTTP error: ", o.resp.statusText>>)
      [] o.payload = NullPayload ->
            TypeErrorOn("undefined (reading 'error')")
      [] Truthy(o.payload.error) ->
            <<"Failed ephemeral key: ", o.payload.error>>
      [] OTHER ->
            TypeErrorOn("undefined (reading 'value')")

\* ---------------------------------------------------------------- Main: connect
\* The connect button: handleClick up to `await getUserMedia(...)`.
HandleClick(limit) ==
    /\ variant = "Main"
    /\ MayClick(limit)
    /\ lastCmd' = "connect"
    /\ IF mediaSupported
       THEN /\ errEl' = <<>>
            /\ tasks' = Append(tasks, [NewTask("getUserMedia") EXCEPT
                                           !.ev = <<"mediaStart">>])
       ELSE LET e == <<"Error: ", "navigator.mediaDevices.getUserMedia is not supported in this environment.">>
            IN /\ errEl' = e
               /\ tasks' = Append(tasks, [NewTask("failed") EXCEPT
                                              !.err = e, !.ev = <<"mediaFail">>])
    /\ UNCHANGED <<env, ephemeralKeyFunction, ephemeralKeyData, localStream, pc,
                   logEl, transcriptEl, muteBtn, streams, conns,
                   events>>

\* A getAudioAccess whose catch block does not rethrow: handleClick goes on to
\* startRealtime, which finds no stream and reports that instead.
GetAudioAccessSwallows(a, granted) ==
    /\ variant = "Main"
    /\ tasks[a].at = "getUserMedia"
    /\ IF granted
       THEN LET s == Len(streams) + 1
            IN /\ streams' = Append(streams, NewStream(MaxTracks))
               /\ localStream' = s
               /\ logEl' = Append(logEl, "Got audio stream successfully.\n")
               /\ tasks' = [tasks EXCEPT ![a].at = "key",
                                         ![a].via = RequestEphemeralKey,
                                         ![a].stream = s,
                                         ![a].ev = @ \o <<"mediaOk", "keyStart">>]
               /\ UNCHANGED errEl
       ELSE LET e == RealtimeError("Error", <<"Audio stream not available.">>)
            IN /\ errEl' = e
               /\ tasks' = Ended(a, e, <<"mediaFail">>)
               /\ UNCHANGED <<streams, localStream, logEl>>
    /\ UNCHANGED <<env, ephemeralKeyFunction, ephemeralKeyData, pc, transcriptEl,
                   muteBtn, conns, lastCmd, events>>

\* getUserMedia settles for task a: the rest of getAudioAccess, then handleClick
\* enters startRealtime, which runs up to `await this.requestEphemeralKey()`.
GetAudioAccess(a, granted) ==
    /\ variant = "Main"
    /\ tasks[a].at = "getUserMedia"
    /\ IF granted
       THEN LET s == Len(streams) + 1
            IN /\ streams' = Append(streams, NewStream(MaxTracks))
               /\ localStream' = s
               /\ logEl' = Append(logEl, "Got audio stream successfully.\n")
               /\ tasks' = [tasks EXCEPT ![a].at = "key",
                                         ![a].via = RequestEphemeralKey,
                                         ![a].stream = s,
                                         ![a].ev = @ \o <<"mediaOk", "keyStart">>]
               /\ UNCHANGED errEl
       ELSE /\ errEl' = <<"Error: ", "Permission denied">>
            /\ tasks' = Ended(a, <<"Error: ", "Permission denied">>, <<"mediaFail">>)
            /\ UNCHANGED <<streams, localStream, logEl>>
    /\ UNCHANGED <<env, ephemeralKeyFunction, ephemeralKeyData, pc, transcriptEl,
                   muteBtn, conns, lastCmd, events>>

\* The key request of task a settles with o: startRealtime from the key check
\* up to `await this.pc.createOffer()`.
StartRealtime(a, o) ==
    /\ variant = "Main"
    /\ tasks[a].at = "key"
    /\ o \in KeyOutcomes(tasks[a].via)
    /\ IF ~KeyAccepted(o)
       THEN /\ errEl' = KeyError(o)
            /\ tasks' = [Ended(a, KeyError(o), <<"keyFail">>) EXCEPT
                             ![a].payload = o.payload, ![a].resp = o.resp]
            /\ UNCHANGED <<pc, conns, logEl>>
       ELSE LET p == Len(conns) + 1
            IN /\ logEl' = Append(logEl, "Got ephemeral key\n")
               /\ pc' = p
               /\ IF localStream = Null
                  THEN LET e == TypeErrorOn("null (reading 'getTracks')")
                       IN /\ conns' = Append(conns, NewConn(a))
                          /\ errEl' = e
                          /\ tasks' = [Ended(a, e, <<"keyOk", "pcNew">>) EXCEPT
                                           ![a].payload = o.payload,
                                           ![a].key = o.payload.secret,
                                           ![a].made = p]
                  ELSE /\ conns' = Append(conns, [NewConn(a) EXCEPT
                                                      !.senders = localStream,
                                                      !.channel = TRUE])
                       /\ tasks' = [tasks EXCEPT
                                        ![a].at = "createOffer",
                                        ![a].payload = o.payload,
                                        ![a].key = o.payload.secret,
                                        ![a].made = p,
                                        ![a].on = p,
                                        ![a].ev = @ \o <<"keyOk", "pcNew", "offerCall">>]
                       /\ UNCHANGED errEl
    /\ UNCHANGED <<env, ephemeralKeyFunction, ephemeralKeyData, localStream,
                   transcriptEl, muteBtn, streams, lastCmd, events>>

\* ---------------------------------------------------------------- negotiation
\* The rest of startRealtime is the same text in every revision, but for the
\* connection it names: the field this.pc (Main), read again at each use, or
\* the constant pc of the invocation (Concurrent, CrossContext).
ThePc(a) == IF variant = "Main" THEN pc ELSE tasks[a].on

\* A signaling POST that sends a shortened secret.
BearerOfShortened(a) == IF tasks[a].key = Absent THEN Absent ELSE "ek"

\* The secret the signaling POST puts after "Bearer ": the constant
\* ephemeralKey, or (CrossContext) this.ephemeralKeyData.client_secret.value,
\* read when the request is built.
BearerOf(a) ==
    IF variant = "CrossContext"
    THEN (IF ephemeralKeyData = NullPayload THEN Absent ELSE ephemeralKeyData.secret)
    ELSE tasks[a].key

\* A startRealtime that calls setLocalDescription(offer) without awaiting it:
\* the signaling POST goes out while the offer is not committed yet.
CreateOfferNoAwait(a, ok) ==
    /\ tasks[a].at = "createOffer"
    /\ ok => ~conns[tasks[a].on].closed
    /\ IF ~ok
       THEN LET e == RealtimeError("InvalidStateError", <<"createOffer failed">>)
            IN /\ errEl' = e
               /\ tasks' = Ended(a, e, <<"offerFail">>)
       ELSE /\ tasks' = [tasks EXCEPT ![a].at = "signal",
                                      ![a].offer = tasks[a].on,
                                      ![a].bearer = tasks[a].key,
                                      ![a].ev = @ \o <<"offerOk", "setLocalCall", "post">>]
            /\ UNCHANGED errEl
    /\ UNCHANGED <<env, ephemeralKeyFunction, ephemeralKeyData, localStream, pc,
                   logEl, transcriptEl, muteBtn, streams, conns, lastCmd, events>>

\* createOffer settles for task a: up to `await ...setLocalDescription(offer)`.
\* A closed connection creates no offer.
CreateOffer(a, ok) ==
    /\ tasks[a].at = "createOffer"
    /\ ok => ~conns[tasks[a].on].closed
    /\ IF ~ok
       THEN LET e == RealtimeError("InvalidStateError", <<"createOffer failed">>)
            IN /\ errEl' = e
               /\ tasks' = Ended(a, e, <<"offerFail">>)
       ELSE IF ThePc(a) = Null
       THEN LET e == TypeErrorOn("null (reading 'setLocalDescription')")
            IN /\ errEl' = e
               /\ tasks' = [Ended(a, e, <<"offerOk">>) EXCEPT
                                ![a].offer = tasks[a].on]
       ELSE /\ tasks' = [tasks EXCEPT ![a].at = "setLocal",
                                      ![a].offer = tasks[a].on,
                                      ![a].on = ThePc(a),
                                      ![a].ev = @ \o <<"offerOk", "setLocalCall">>]
            /\ UNCHANGED errEl
    /\ UNCHANGED <<env, ephemeralKeyFunction, ephemeralKeyData, localStream, pc,
                   logEl, transcriptEl, muteBtn, streams, conns, lastCmd, events>>

\* setLocalDescription settles for task a: the offer is committed, and
\* startRealtime runs up to `await fetch(...)`, the signaling POST.  A
\* connection commits only an offer it created itself, and only while open.
SetLocalDescription(a, ok) ==
    /\ tasks[a].at = "setLocal"
    /\ ok => /\ ~conns[tasks[a].on].closed
             /\ tasks[a].offer = tasks[a].on
    /\ IF ~ok
       THEN LET e == RealtimeError("InvalidStateError", <<"setLocalDescription failed">>)
            IN /\ errEl' = e
               /\ tasks' = Ended(a, e, <<"setLocalFail">>)
               /\ UNCHANGED <<conns, logEl>>
       ELSE /\ conns' = [conns EXCEPT ![tasks[a].on].localDesc = tasks[a].offer]
            /\ logEl' = Append(logEl, "Created SDP offer\n")
            /\ IF BearerOf(a) = Absent
               THEN LET e == TypeErrorOn("undefined (reading 'value')")
                    IN /\ errEl' = e
                       /\ tasks' = Ended(a, e, <<"setLocalOk">>)
               ELSE /\ tasks' = [tasks EXCEPT
                                     ![a].at = "signal",
                                     ![a].bearer = BearerOf(a),
                                     ![a].ev = @ \o <<"setLocalOk", "post">>]
                    /\ UNCHANGED errEl
    /\ UNCHANGED <<env, ephemeralKeyFunction, ephemeralKeyData, localStream, pc,
                   transcriptEl, muteBtn, streams, lastCmd, events>>

\* A startRealtime that returns on a non-success signaling response without
\* writing anything to #err.
AnswerErrorSilent(r) == <<>>

\* An error text for a non-success signaling response that leaves the status out.
AnswerErrorNoStatus(r) == <<"Failed to get answer SDP: ", r.statusText>>

\* What startRealtime writes to #err for a non-success signaling response.
AnswerError(r) == <<"Failed to get answer SDP: ", r.status, " - ", r.statusText>>

\* A startRealtime that sends the offer once more after a non-success response.
SignalingResponseRetries(a, r, failed) ==
    /\ tasks[a].at = "signal"
    /\ r \in Responses
    /\ IF failed
       THEN LET e == RealtimeError("TypeError", <<"Failed to fetch">>)
            IN /\ errEl' = e
               /\ tasks' = Ended(a, e, <<"postFail">>)
       ELSE IF ~ResponseOk(r) /\ CountIn(tasks[a].ev, "post") < 2
       THEN /\ tasks' = [tasks EXCEPT ![a].resp = r, ![a].ev = @ \o <<"resp", "post">>]
            /\ UNCHANGED errEl
       ELSE IF ~ResponseOk(r)
       THEN /\ errEl' = AnswerError(r)
            /\ tasks' = [Ended(a, AnswerError(r), <<"resp">>) EXCEPT ![a].resp = r]
       ELSE /\ tasks' = [tasks EXCEPT ![a].at = "text",
                                      ![a].resp = r,
                                      ![a].ev = @ \o <<"resp">>]
            /\ UNCHANGED errEl
    /\ UNCHANGED <<env, ephemeralKeyFunction, ephemeralKeyData, localStream, pc,
                   logEl, transcriptEl, muteBtn, streams, conns, lastCmd, events>>

\* The signaling POST of task a settles: with response r, or (failed) with a
\* network error.  A success goes on to `await sdpResponse.text()`.
SignalingResponse(a, r, failed) ==
    /\ tasks[a].at = "signal"
    /\ r \in Responses
    /\ IF failed
       THEN LET e == RealtimeError("TypeError", <<"Failed to fetch">>)
            IN /\ errEl' = e
               /\ tasks' = Ended(a, e, <<"postFail">>)
       ELSE IF ~ResponseOk(r)
       THEN /\ errEl' = AnswerError(r)
            /\ tasks' = [Ended(a, AnswerError(r), <<"resp">>) EXCEPT ![a].resp = r]
       ELSE /\ tasks' = [tasks EXCEPT ![a].at = "text",
                                      ![a].resp = r,
                                      ![a].ev = @ \o <<"resp">>]
            /\ UNCHANGED errEl
    /\ UNCHANGED <<env, ephemeralKeyFunction, ephemeralKeyData, localStream, pc,
                   logEl, transcriptEl, muteBtn, streams, conns, lastCmd, events>>

\* The body of the signaling response arrives for task a: the answer to the
\* offer it posted; startRealtime runs up to `await ...setRemoteDescription(...)`.
AnswerText(a, ok) ==
    /\ tasks[a].at = "text"
    /\ IF ~ok
       THEN LET e == RealtimeError("TypeError", <<"Failed to fetch">>)
            IN /\ errEl' = e
               /\ tasks' = Ended(a, e, <<"textFail">>)
               /\ UNCHANGED logEl
       ELSE /\ logEl' = Append(logEl, "Received answer SDP\n")
            /\ IF ThePc(a) = Null
               THEN LET e == TypeErrorOn("null (reading 'setRemoteDescription')")
                    IN /\ errEl' = e
                       /\ tasks' = [Ended(a, e, <<"answer">>) EXCEPT
                                        ![a].answer = tasks[a].offer]
               ELSE /\ tasks' = [tasks EXCEPT
                                     ![a].at = "setRemote",
                                     ![a].answer = tasks[a].offer,
                                     ![a].on = ThePc(a),
                                     ![a].ev = @ \o <<"answer", "setRemoteCall">>]
                    /\ UNCHANGED errEl
    /\ UNCHANGED <<env, ephemeralKeyFunction, ephemeralKeyData, localStream, pc,
                   transcriptEl, muteBtn, streams, conns, lastCmd,
                   events>>

\* setRemoteDescription settles for task a.  A connection applies an answer
\* only while open, with a local offer committed and no answer applied yet.
SetRemoteDescription(a, ok) ==
    /\ tasks[a].at = "setRemote"
    /\ ok => /\ ~conns[tasks[a].on].closed
             /\ conns[tasks[a].on].localDesc # Null
             /\ conns[tasks[a].on].remoteDesc = Null
    /\ IF ~ok
       THEN LET e == RealtimeError("InvalidStateError", <<"setRemoteDescription failed">>)
            IN /\ errEl' = e
               /\ tasks' = Ended(a, e, <<"setRemoteFail">>)
               /\ UNCHANGED <<conns, logEl>>
       ELSE /\ conns' = [conns EXCEPT ![tasks[a].on].remoteDesc = tasks[a].answer]
            /\ logEl' = Append(logEl, "Connected to OpenAI Realtime!\n")
            /\ tasks' = [tasks EXCEPT ![a].at = "connected",
                                      ![a].ev = @ \o <<"setRemoteOk">>]
            /\ UNCHANGED errEl
    /\ UNCHANGED <<env, ephemeralKeyFunction, ephemeralKeyData, localStream, pc,
                   transcriptEl, muteBtn, streams, lastCmd, events>>

\* ---------------------------------------------------------------- Main: commands
\* A cancelChat that stops only the first track of the stream.
StopFirstTrack(ss, s) ==
    IF s = Null THEN ss
    ELSE [ss EXCEPT ![s] = [i \in DOMAIN @ |->
                               IF i = 1 THEN [@[i] EXCEPT !.stopped = TRUE] ELSE @[i]]]

\* track.stop() on every track of stream s.
StopTracks(ss, s) ==
    IF s = Null THEN ss
    ELSE [ss EXCEPT ![s] = [i \in DOMAIN @ |-> [@[i] EXCEPT !.stopped = TRUE]]]

\* pc.close() on connection p.
ClosePc(cs, p) == IF p = Null THEN cs ELSE [cs EXCEPT ![p].closed = TRUE]

\* What the user can observe of the element, and the objects behind it.
Obs ==
    [localStream |-> localStream, pc |-> pc, logEl |-> logEl,
     transcriptEl |-> transcriptEl, errEl |-> errEl, muteBtn |-> muteBtn,
     streams |-> streams, conns |-> conns]

\* A cancelChat that closes the connection but keeps the reference to it.
CancelResultKeepsPc(o) ==
    [o EXCEPT !.streams = StopTracks(o.streams, o.localStream),
              !.localStream = Null,
              !.conns = ClosePc(o.conns, o.pc),
              !.logEl = o.logEl
                  \o (IF o.localStream # Null THEN <<"Audio stream canceled.\n">> ELSE <<>>)
                  \o (IF o.pc # Null THEN <<"RTCPeerConnection closed.\n">> ELSE <<>>)]

\* cancelChat as a function of what it reads and writes.
CancelResult(o) ==
    [o EXCEPT !.streams = StopTracks(o.streams, o.localStream),
              !.localStream = Null,
              !.conns = ClosePc(o.conns, o.pc),
              !.pc = Null,
              !.logEl = o.logEl
                  \o (IF o.localStream # Null THEN <<"Audio stream canceled.\n">> ELSE <<>>)
                  \o (IF o.pc # Null THEN <<"RTCPeerConnection closed.\n">> ELSE <<>>)]

\* A cancelChat that writes its log lines whether or not anything was held.
CancelChatAlwaysLogs ==
    /\ variant = "Main"
    /\ lastCmd' = "cancel"
    /\ streams' = StopTracks(streams, localStream)
    /\ localStream' = Null
    /\ conns' = ClosePc(conns, pc)
    /\ pc' = Null
    /\ logEl' = logEl \o <<"Audio stream canceled.\n", "RTCPeerConnection closed.\n">>
    /\ UNCHANGED <<env, ephemeralKeyFunction, ephemeralKeyData, errEl, transcriptEl,
                   muteBtn, tasks, events>>

\* The cancel button: cancelChat.
CancelChat ==
    /\ variant = "Main"
    /\ lastCmd' = "cancel"
    /\ streams' = StopTracks(streams, localStream)
    /\ localStream' = Null
    /\ conns' = ClosePc(conns, pc)
    /\ pc' = Null
    /\ logEl' = logEl
                \o (IF localStream # Null THEN <<"Audio stream canceled.\n">> ELSE <<>>)
                \o (IF pc # Null THEN <<"RTCPeerConnection closed.\n">> ELSE <<>>)
    /\ UNCHANGED <<env, ephemeralKeyFunction, ephemeralKeyData, errEl, transcriptEl,
                   muteBtn, tasks, events>>

\* A toggleMute that disables every track instead of inverting it.
DisableTracks(tr) == [i \in DOMAIN tr |-> [tr[i] EXCEPT !.enabled = FALSE]]

\* track.enabled = !track.enabled on every audio track of a stream.
FlipTracks(tr) == [i \in DOMAIN tr |-> [tr[i] EXCEPT !.enabled = ~@]]

\* A toggleMute that labels the button with the state instead of the offer.
MuteLabelInverted(tr, old) ==
    IF Len(tr) = 0 THEN old
    ELSE IF tr[Len(tr)].enabled THEN "Unmute" ELSE "Mute"

\* The label the forEach of toggleMute leaves on the button: each track writes
\* it, the last one stays.
MuteLabel(tr, old) ==
    IF Len(tr) = 0 THEN old
    ELSE IF tr[Len(tr)].enabled THEN "Mute" ELSE "Unmute"

\* A toggleMute that relabels the button even when no stream is held.
ToggleMuteAlwaysLabels ==
    /\ variant = "Main"
    /\ IF localStream # Null
       THEN /\ streams' = [streams EXCEPT ![localStream] = FlipTracks(@)]
            /\ muteBtn' = MuteLabel(FlipTracks(streams[localStream]), muteBtn)
       ELSE /\ muteBtn' = (IF muteBtn = "Unmute" THEN "Mute" ELSE "Unmute")
            /\ UNCHANGED streams
    /\ UNCHANGED <<env, ephemeralKeyFunction, ephemeralKeyData, localStream, pc,
                   errEl, logEl, transcriptEl, conns, tasks, lastCmd, events>>

\* The mute button: toggleMute.
ToggleMute ==
    /\ variant = "Main"
    /\ IF localStream # Null
       THEN /\ streams' = [streams EXCEPT ![localStream] = FlipTracks(@)]
            /\ muteBtn' = MuteLabel(FlipTracks(streams[localStream]), muteBtn)
       ELSE UNCHANGED <<streams, muteBtn>>
    /\ UNCHANGED <<env, ephemeralKeyFunction, ephemeralKeyData, localStream, pc,
                   errEl, logEl, transcriptEl, conns, tasks, lastCmd, events>>

\* setEphemeralKeyFunction(fn): kept only if fn is a function.
SetEphemeralKeyFunction(isFunction) ==
    /\ variant \in {"Main", "Concurrent"}
    /\ ephemeralKeyFunction' = IF isFunction THEN TRUE ELSE ephemeralKeyFunction
    /\ UNCHANGED <<env, ephemeralKeyData, localStream, pc, errEl, logEl,
                   transcriptEl, muteBtn, streams, conns, tasks, lastCmd, events>>

\* ---------------------------------------------------------------- transport events
\* Texts the remote end sends on the data channel.
DcMessages ==
    { "hi",
      "null",
      "{\"type\":\"session.created\"}",
      "{\"type\":\"response.text.delta\",\"delta\":\"hello\"}",
      "{\"type\":\"response.text.delta\",\"delta\":\"\"}" }

\* JSON.parse: whether the text parses; if so whether the value is null, and
\* its `type` and `delta` properties.
JsonParse(data) ==
    CASE data = "null" ->
            [ok |-> TRUE, isNull |-> TRUE, type |-> Absent, delta |-> Absent]
      [] data = "{\"type\":\"session.created\"}" ->
            [ok |-> TRUE, isNull |-> FALSE, type |-> "session.created", delta |-> Absent]
      [] data = "{\"type\":\"response.text.delta\",\"delta\":\"hello\"}" ->
            [ok |-> TRUE, isNull |-> FALSE, type |-> "response.text.delta",
             delta |-> "hello"]
      [] data = "{\"type\":\"response.text.delta\",\"delta\":\"\"}" ->
            [ok |-> TRUE, isNull |-> FALSE, type |-> "response.text.delta",
             delta |-> ""]
      [] OTHER ->
            [ok |-> FALSE, isNull |-> FALSE, type |-> Absent, delta |-> Absent]

\* `${x}` of a property that may be missing.
Str(x) == IF x = Absent THEN "undefined" ELSE x

\* The remote end can reach the handlers of connection p: they are registered,
\* the answer is applied and the connection is open.
Live(p) ==
    /\ conns[p].channel
    /\ conns[p].remoteDesc # Null
    /\ ~conns[p].closed

\* A dc.onmessage whose catch block logs that a message was not JSON, without
\* the message.
OnMessageLogNoText(data) ==
    IF variant # "Main"
    THEN <<"AI event: ", data, "\n">>
    ELSE IF JsonParse(data).ok /\ ~JsonParse(data).isNull
    THEN <<"Data channel event: ", Str(JsonParse(data).type), "\n">>
    ELSE <<"Received non-JSON message", "\n">>

\* What dc.onmessage appends to the log for the text `data`.
OnMessageLog(data) ==
    IF variant # "Main"
    THEN <<"AI event: ", data, "\n">>
    ELSE IF JsonParse(data).ok /\ ~JsonParse(data).isNull
    THEN <<"Data channel event: ", Str(JsonParse(data).type), "\n">>
    ELSE <<"Received non-JSON message: ", data, "\n">>

\* A dc.onmessage that passes every parsed event to updateTranscript.
OnMessageDeltaAnyType(data) ==
    IF variant = "Main" /\ JsonParse(data).ok /\ ~JsonParse(data).isNull
    THEN <<Str(JsonParse(data).delta)>>
    ELSE <<>>

\* What dc.onmessage passes to updateTranscript for the text `data` (<<>>: no call).
OnMessageDelta(data) ==
    IF /\ variant = "Main"
       /\ JsonParse(data).ok
       /\ ~JsonParse(data).isNull
       /\ JsonParse(data).type = "response.text.delta"
       /\ Truthy(JsonParse(data).delta)
    THEN <<JsonParse(data).delta>>
    ELSE <<>>

\* An updateTranscript that assigns the fragment instead of appending it.
DcOnMessageOverwrites(p, data) ==
    /\ Live(p)
    /\ events < MaxEvents
    /\ events' = events + 1
    /\ logEl' = logEl \o OnMessageLog(data)
    /\ transcriptEl' = (IF OnMessageDelta(data) = <<>> THEN transcriptEl
                        ELSE OnMessageDelta(data))
    /\ UNCHANGED <<env, ephemeralKeyFunction, ephemeralKeyData, localStream, pc,
                   errEl, muteBtn, streams, conns, tasks, lastCmd>>

\* dc.onmessage of connection p, with updateTranscript.
DcOnMessage(p, data) ==
    /\ Live(p)
    /\ events < MaxEvents
    /\ events' = events + 1
    /\ logEl' = logEl \o OnMessageLog(data)
    /\ transcriptEl' = transcriptEl \o OnMessageDelta(data)
    /\ UNCHANGED <<env, ephemeralKeyFunction, ephemeralKeyData, localStream, pc,
                   errEl, muteBtn, streams, conns, tasks, lastCmd>>

\* dc.onopen (open = TRUE) or pc.ontrack (open = FALSE) of connection p.
DcOnOpenOrTrack(p, open) ==
    /\ Live(p)
    /\ events < MaxEvents
    /\ events' = events + 1
    /\ logEl' = Append(logEl,
                   IF open
                   THEN (IF variant = "CrossContext" THEN "Data channel open with AI.\n"
                         ELSE "Data channel open with AI\n")
                   ELSE (IF variant = "CrossContext"
                         THEN "Received remote track from model.\n"
                         ELSE "Received remote track from model\n"))
    /\ UNCHANGED <<env, ephemeralKeyFunction, ephemeralKeyData, localStream, pc,
                   errEl, transcriptEl, muteBtn, streams, conns, tasks, lastCmd>>

\* ---------------------------------------------------------------- Concurrent
\* startRealtime of part_001 from the key check up to `await pc.createOffer()`,
\* for task a holding stream s, key outcome o, with T and L the task table and
\* the log so far.
ConcurrentNegotiate(a, o, s, T, L) ==
    IF ~KeyAccepted(o)
    THEN /\ errEl' = KeyError(o)
         /\ tasks' = [T EXCEPT ![a].at = "failed", ![a].err = KeyError(o),
                               ![a].payload = o.payload, ![a].resp = o.resp,
                               ![a].ev = @ \o <<"keyFail">>]
         /\ logEl' = L
         /\ UNCHANGED conns
    ELSE /\ logEl' = Append(L, "Got ephemeral key\n")
         /\ conns' = Append(conns, [NewConn(a) EXCEPT !.senders = s, !.channel = TRUE])
         /\ tasks' = [T EXCEPT ![a].at = "createOffer",
                               ![a].payload = o.payload,
                               ![a].key = o.payload.secret,
                               ![a].made = Len(conns) + 1,
                               ![a].on = Len(conns) + 1,
                               ![a].ev = @ \o <<"keyOk", "pcNew", "offerCall">>]
         /\ UNCHANGED errEl

\* The connect button of part_001: startRealtime up to `await audioPromise`.
ConcurrentClick(limit) ==
    /\ variant = "Concurrent"
    /\ MayClick(limit)
    /\ lastCmd' = "connect"
    /\ logEl' = Append(logEl, "Requesting audio stream...\n")
    /\ IF mediaSupported
       THEN /\ tasks' = Append(tasks, [NewTask("getUserMedia") EXCEPT
                                           !.via = RequestEphemeralKey,
                                           !.ev = <<"mediaStart", "keyStart">>])
            /\ UNCHANGED errEl
       ELSE LET e == TypeErrorOn("undefined (reading 'getUserMedia')")
            IN /\ errEl' = e
               /\ tasks' = Append(tasks, [NewTask("failed") EXCEPT
                                              !.err = e, !.ev = <<"mediaFail">>])
    /\ UNCHANGED <<env, ephemeralKeyFunction, ephemeralKeyData, localStream, pc,
                   transcriptEl, muteBtn, streams, conns, events>>

\* getUserMedia settles for task a of part_001; if its key request has settled
\* already, `await ephemeralPromise` goes straight on.
ConcurrentAudio(a, granted) ==
    /\ variant = "Concurrent"
    /\ tasks[a].at = "getUserMedia"
    /\ IF ~granted
       THEN LET e == RealtimeError("NotAllowedError", <<"Permission denied">>)
            IN /\ errEl' = e
               /\ tasks' = Ended(a, e, <<"mediaFail">>)
               /\ UNCHANGED <<streams, localStream, logEl, conns>>
       ELSE LET s == Len(streams) + 1
                T == [tasks EXCEPT ![a].at = "key", ![a].stream = s,
                                   ![a].ev = @ \o <<"mediaOk">>]
                L == Append(logEl, "Got user audio stream\n")
            IN /\ streams' = Append(streams, NewStream(MaxTracks))
               /\ localStream' = s
               /\ IF tasks[a].keyRes.kind = Pending
                  THEN /\ tasks' = T
                       /\ logEl' = L
                       /\ UNCHANGED <<errEl, conns>>
                  ELSE ConcurrentNegotiate(a, tasks[a].keyRes, s, T, L)
    /\ UNCHANGED <<env, ephemeralKeyFunction, ephemeralKeyData, pc, transcriptEl,
                   muteBtn, lastCmd, events>>

\* The key request of task a of part_001 settles with o: kept in the promise
\* while startRealtime still waits for the audio (or has ended on an audio
\* failure and never awaits it), else startRealtime goes on.
ConcurrentKey(a, o) ==
    /\ variant = "Concurrent"
    /\ tasks[a].at \in {"getUserMedia", "key", "failed"}
    /\ tasks[a].via # ""
    /\ tasks[a].keyRes.kind = Pending
    /\ o \in KeyOutcomes(tasks[a].via)
    /\ IF tasks[a].at # "key"
       THEN /\ tasks' = [tasks EXCEPT ![a].keyRes = o, ![a].ev = @ \o <<"keyDone">>]
            /\ UNCHANGED <<errEl, logEl, conns>>
       ELSE ConcurrentNegotiate(a, o, tasks[a].stream,
                                [tasks EXCEPT ![a].keyRes = o], logEl)
    /\ UNCHANGED <<env, ephemeralKeyFunction, ephemeralKeyData, localStream, pc,
                   transcriptEl, muteBtn, streams, lastCmd, events>>

\* ---------------------------------------------------------------- CrossContext
\* Message events the window receives: event.data (or none), its type and key.
WindowMessages ==
    {[data |-> TRUE, type |-> "EPHEMERAL_KEY", key |-> k] :
          k \in Payloads \cup {NullPayload}}
    \cup {[data |-> TRUE, type |-> "OTHER", key |-> [error |-> Absent, secret |-> "ek_1"]],
          [data |-> FALSE, type |-> Absent, key |-> NullPayload]}

\* A message listener that does not look at the type of the message.
IsKeyMessageAnyType(m) == m.data

\* The filter of the message listener.
IsKeyMessage(m) == m.data /\ m.type = "EPHEMERAL_KEY"

\* The connect button of the cross-context revision: getAudioAccess() starts
\* getUserMedia, then the key request is posted to the parent window.
CrossClick(limit) ==
    /\ variant = "CrossContext"
    /\ MayClick(limit)
    /\ lastCmd' = "connect"
    /\ IF mediaSupported
       THEN tasks' = Append(tasks, [NewTask("getUserMedia") EXCEPT
                                        !.via = "post",
                                        !.ev = <<"mediaStart", "keyStart">>])
       ELSE \* getUserMedia of undefined throws out of the click handler
            tasks' = Append(tasks, [NewTask("failed") EXCEPT !.ev = <<"mediaFail">>])
    /\ UNCHANGED <<env, ephemeralKeyFunction, ephemeralKeyData, localStream, pc,
                   errEl, logEl, transcriptEl, muteBtn, streams, conns, events>>

\* getUserMedia settles for the click a: the then / catch of getAudioAccess.
CrossAudio(a, granted) ==
    /\ variant = "CrossContext"
    /\ tasks[a].at = "getUserMedia"
    /\ IF granted
       THEN /\ streams' = Append(streams, NewStream(MaxTracks))
            /\ localStream' = Len(streams) + 1
            /\ logEl' = Append(logEl, "Got audio stream.\n")
            /\ tasks' = [tasks EXCEPT ![a].at = "captured",
                                      ![a].stream = Len(streams) + 1,
                                      ![a].ev = @ \o <<"mediaOk">>]
            /\ UNCHANGED errEl
       ELSE /\ errEl' = <<"Audio error: ", "Permission denied">>
            /\ tasks' = Ended(a, <<"Audio error: ", "Permission denied">>, <<"mediaFail">>)
            /\ UNCHANGED <<streams, localStream, logEl>>
    /\ UNCHANGED <<env, ephemeralKeyFunction, ephemeralKeyData, pc, transcriptEl,
                   muteBtn, conns, lastCmd, events>>

\* The window's message listener, and for a key message startRealtime up to
\* `await pc.createOffer()`.  Each key message is an invocation of its own.
OnWindowMessage(m, limit) ==
    /\ variant = "CrossContext"
    /\ m \in WindowMessages
    /\ IF ~IsKeyMessage(m)
       THEN UNCHANGED <<ephemeralKeyData, errEl, logEl, conns, tasks>>
       ELSE /\ Cardinality(Task \ Clicks) < limit
            /\ ephemeralKeyData' = m.key
            /\ IF m.key = NullPayload
               THEN LET e == <<"Ephemeral key data not set.">>
                    IN /\ errEl' = e
                       /\ logEl' = Append(logEl, "Ephemeral key received.\n")
                       /\ tasks' = Append(tasks, [NewTask("failed") EXCEPT
                                          !.via = "message", !.payload = m.key,
                                          !.err = e, !.ev = <<"keyFail">>])
                       /\ UNCHANGED conns
               ELSE LET p == Len(conns) + 1
                        T == [NewTask("createOffer") EXCEPT
                                  !.via = "message", !.payload = m.key,
                                  !.stream = localStream, !.made = p, !.on = p]
                    IN /\ logEl' = logEl \o <<"Ephemeral key received.\n",
                                              "Starting RealTime connection...\n">>
                       /\ IF localStream = Null
                          THEN LET e == RealtimeError("Error",
                                            <<"Local audio stream not available.">>)
                               IN /\ conns' = Append(conns, NewConn(Len(tasks) + 1))
                                  /\ errEl' = e
                                  /\ tasks' = Append(tasks, [T EXCEPT
                                                 !.at = "failed", !.err = e,
                                                 !.ev = <<"keyOk", "pcNew">>])
                          ELSE /\ conns' = Append(conns,
                                      [NewConn(Len(tasks) + 1) EXCEPT
                                           !.senders = localStream, !.channel = TRUE])
                               /\ tasks' = Append(tasks, [T EXCEPT
                                              !.ev = <<"keyOk", "pcNew", "offerCall">>])
                               /\ UNCHANGED errEl
    /\ UNCHANGED <<env, ephemeralKeyFunction, localStream, pc, transcriptEl, muteBtn,
                   streams, lastCmd, events>>

\* ---------------------------------------------------------------- specification
Next ==
    \/ HandleClick(MaxTasks)
    \/ \E a \in Task, granted \in BOOLEAN : GetAudioAccess(a, granted)
    \/ \E a \in Task : \E o \in KeyOutcomes(tasks[a].via) : StartRealtime(a, o)
    \/ \E a \in Task, ok \in BOOLEAN : CreateOffer(a, ok)
    \/ \E a \in Task, ok \in BOOLEAN : SetLocalDescription(a, ok)
    \/ \E a \in Task, r \in Responses, failed \in BOOLEAN : SignalingResponse(a, r, failed)
    \/ \E a \in Task, ok \in BOOLEAN : AnswerText(a, ok)
    \/ \E a \in Task, ok \in BOOLEAN : SetRemoteDescription(a, ok)
    \/ CancelChat
    \/ ToggleMute
    \/ \E isFunction \in BOOLEAN : SetEphemeralKeyFunction(isFunction)
    \/ \E p \in Conn, data \in DcMessages : DcOnMessage(p, data)
    \/ \E p \in Conn, open \in BOOLEAN : DcOnOpenOrTrack(p, open)
    \/ ConcurrentClick(MaxTasks)
    \/ \E a \in Task, granted \in BOOLEAN : ConcurrentAudio(a, granted)
    \/ \E a \in Task : \E o \in KeyOutcomes(tasks[a].via) : ConcurrentKey(a, o)
    \/ CrossClick(MaxTasks)
    \/ \E a \in Task, granted \in BOOLEAN : CrossAudio(a, granted)
    \/ \E m \in WindowMessages : OnWindowMessage(m, MaxTasks)

Spec == Init /\ [][Next]_vars

\* Runs with a second connect click (and a second key message): the connection
\* attempts and cancelChat, which may overlap.
NextAgain ==
    \/ HandleClick(MaxAgain)
    \/ \E a \in Task, granted \in BOOLEAN : GetAudioAccess(a, granted)
    \/ \E a \in Task : \E o \in KeyOutcomes(tasks[a].via) : StartRealtime(a, o)
    \/ \E a \in Task, ok \in BOOLEAN : CreateOffer(a, ok)
    \/ \E a \in Task, ok \in BOOLEAN : SetLocalDescription(a, ok)
    \/ \E a \in Task, r \in Responses, failed \in BOOLEAN : SignalingResponse(a, r, failed)
    \/ \E a \in Task, ok \in BOOLEAN : AnswerText(a, ok)
    \/ \E a \in Task, ok \in BOOLEAN : SetRemoteDescription(a, ok)
    \/ CancelChat
    \/ ConcurrentClick(MaxAgain)
    \/ \E a \in Task, granted \in BOOLEAN : ConcurrentAudio(a, granted)
    \/ \E a \in Task : \E o \in KeyOutcomes(tasks[a].via) : ConcurrentKey(a, o)
    \/ CrossClick(MaxAgain)
    \/ \E a \in Task, granted \in BOOLEAN : CrossAudio(a, granted)
    \/ \E m \in WindowMessages : OnWindowMessage(m, MaxAgain)

SpecAgain == Init /\ [][NextAgain]_vars

\* The data channel messages that are response.text.delta events.
TextDeltas == {d \in DcMessages : JsonParse(d).type = "response.text.delta"}

\* Runs of the Main revision with one session after another: the connection
\* attempts, cancelChat and the text deltas arriving on the data channel.
NextSessions ==
    \/ HandleClick(MaxAgain)
    \/ \E a \in Task, granted \in BOOLEAN : GetAudioAccess(a, granted)
    \/ \E a \in Task : \E o \in KeyOutcomes(tasks[a].via) : StartRealtime(a, o)
    \/ \E a \in Task, ok \in BOOLEAN : CreateOffer(a, ok)
    \/ \E a \in Task, ok \in BOOLEAN : SetLocalDescription(a, ok)
    \/ \E a \in Task, r \in Responses, failed \in BOOLEAN : SignalingResponse(a, r, failed)
    \/ \E a \in Task, ok \in BOOLEAN : AnswerText(a, ok)
    \/ \E a \in Task, ok \in BOOLEAN : SetRemoteDescription(a, ok)
    \/ CancelChat
    \/ \E p \in Conn, data \in TextDeltas : DcOnMessage(p, data)

SpecSessions == Init /\ [][NextSessions]_vars

\* Runs of the Main revision with the three buttons: connect (twice), mute and
\* cancel, up to the start of the negotiation.
NextButtons ==
    \/ HandleClick(MaxAgain)
    \/ \E a \in Task, granted \in BOOLEAN : GetAudioAccess(a, granted)
    \/ \E a \in Task : \E o \in KeyOutcomes(tasks[a].via) : StartRealtime(a, o)
    \/ CancelChat
    \/ ToggleMute

SpecButtons == Init /\ [][NextButtons]_vars

\* The pending operation of invocation a settles, in whichever way: the step
\* the browser owes to a suspended invocation.
Settle(a) ==
    /\ a \in Task
    /\ \/ \E granted \in BOOLEAN : GetAudioAccess(a, granted)
       \/ \E o \in KeyOutcomes(tasks[a].via) : StartRealtime(a, o)
       \/ \E ok \in BOOLEAN : CreateOffer(a, ok)
       \/ \E ok \in BOOLEAN : SetLocalDescription(a, ok)
       \/ \E r \in Responses, failed \in BOOLEAN : SignalingResponse(a, r, failed)
       \/ \E ok \in BOOLEAN : AnswerText(a, ok)
       \/ \E ok \in BOOLEAN : SetRemoteDescription(a, ok)
       \/ \E granted \in BOOLEAN : ConcurrentAudio(a, granted)
       \/ \E o \in KeyOutcomes(tasks[a].via) : ConcurrentKey(a, o)
       \/ \E granted \in BOOLEAN : CrossAudio(a, granted)

\* Runs in which every external operation eventually settles.
SpecSettling == Spec /\ \A a \in 1..MaxTasks : WF_vars(Settle(a))

\* ---------------------------------------------------------------- session state
\* The state of the design's session state machine that an invocation is in.
Phase(a) ==
    CASE tasks[a].at \in {"getUserMedia", "key", "captured"} -> "AcquiringResources"
      [] tasks[a].at \in {"createOffer", "setLocal", "signal", "text", "setRemote"} ->
            "Negotiating"
      [] tasks[a].at = "connected" -> "Connected"
      [] OTHER -> "Error"

\* The session state: Idle before the first connect and after a cancel, else
\* the phase of the connection attempt the last connect started.
SessionState ==
    IF lastCmd # "connect" \/ tasks = <<>> THEN "Idle" ELSE Phase(Len(tasks))

\* ---------------------------------------------------------------- claims
\* C1: after cancel() and until the next connect(), no peer transport is held
\* (this.pc stays null), whatever pending operation of the cancelled attempt
\* resolves later.
C1_NoTransportAfterCancel == lastCmd = "cancel" => pc = Null

\* C2: a peer transport is held (this.pc is non-null) only while the session
\* state is Negotiating or Connected; none is held in Idle or in Error.
C2_TransportOnlyWhileNegotiatingOrConnected ==
    pc # Null => SessionState \in {"Negotiating", "Connected"}

\* C3: cancelChat, from any state, ends without an error and leaves the
\* controller Idle: every track of the stream it held is stopped, the
\* transport it held is closed, and localStream and pc are both absent.
C3_CancelReleasesEverything ==
    [][CancelChat =>
          /\ localStream' = Null
          /\ pc' = Null
          /\ localStream # Null =>
                \A i \in DOMAIN streams'[localStream] : streams'[localStream][i].stopped
          /\ pc # Null => conns'[pc].closed
          /\ errEl' = errEl
          /\ SessionState' = "Idle"]_vars

\* C3 witness: a cancel has released a stream and closed a transport.
C3_Witness ==
    /\ lastCmd = "cancel"
    /\ localStream = Null
    /\ pc = Null
    /\ \E s \in DOMAIN streams : \A i \in DOMAIN streams[s] : streams[s][i].stopped
    /\ \E p \in Conn : conns[p].closed


\* C4: no RTCPeerConnection is created before both the media acquisition and
\* the credential acquisition of its connection attempt have completed
\* successfully.
C4_TransportAfterBothAcquired ==
    \A p \in Conn :
        /\ tasks[conns[p].by].stream # Null
        /\ Did(conns[p].by, "keyOk")

\* The events that complete an acquisition of a connection attempt.
Completions == {"mediaOk", "mediaFail", "keyDone", "keyOk", "keyFail"}

\* C5: on connect(), media acquisition and credential acquisition are both
\* started before either one completes.
C5_BothStartedBeforeEitherCompletes ==
    mediaSupported =>
        \A a \in Clicks : \A i \in DOMAIN tasks[a].ev :
            tasks[a].ev[i] \in Completions =>
                /\ When(a, "mediaStart") \in 1..(i - 1)
                /\ When(a, "keyStart") \in 1..(i - 1)

\* C6: within a connection attempt the signaling POST is issued only after
\* setLocalDescription(offer) has completed, with the offer committed on a
\* connection, and setRemoteDescription(answer) is invoked only after that and
\* after the signaling response has been received.
C6_OfferCommittedBeforeSent ==
    \A a \in Task :
        /\ Did(a, "post") =>
              /\ When(a, "setLocalOk") \in 1..(When(a, "post") - 1)
              /\ \E p \in Conn : conns[p].localDesc = tasks[a].offer
        /\ Did(a, "setRemoteCall") =>
              /\ When(a, "setLocalOk") \in 1..(When(a, "setRemoteCall") - 1)
              /\ When(a, "resp") \in 1..(When(a, "setRemoteCall") - 1)

\* C6 witness: an attempt has committed its offer, posted it, received the
\* response and invoked setRemoteDescription.
C6_Witness == \E a \in Task : Did(a, "post") /\ Did(a, "setRemoteCall")

\* C7: for every credential payload that carries an error field, the attempt
\* never reaches Negotiating: it creates no transport, produces no offer, sends
\* no signaling request, and ends with an error in the error sink.  (Stated of
\* the revisions that test the field.)
C7_ErrorPayloadNeverNegotiates ==
    variant # "CrossContext" =>
        \A a \in Task :
            tasks[a].payload.error # Absent =>
                /\ tasks[a].made = Null
                /\ ~Did(a, "offerCall")
                /\ ~Did(a, "post")
                /\ tasks[a].at = "failed"
                /\ tasks[a].err # <<>>

\* C8: when the HTTP fallback credential request returns a non-success status,
\* the attempt ends in Error with an error that carries that status code, and
\* creates no transport.
C8_HttpFailureCarriesStatus ==
    \A a \in Task :
        (Did(a, "keyFail") /\ tasks[a].resp # NoResponse) =>
            /\ tasks[a].at = "failed"
            /\ tasks[a].resp.status \in Range(tasks[a].err)
            /\ tasks[a].made = Null

\* C9: when media access is denied, the attempt ends in Error with the
\* media-access failure in the error sink and no transport created, and this is
\* so whatever the credential request does: succeed, fail or never settle.
\* (Stated of the revisions whose connect awaits the audio: Main, part_001.)
C9_MediaDeniedEndsInError ==
    (variant # "CrossContext" /\ mediaSupported) =>
        \A a \in Task :
            Did(a, "mediaFail") =>
                /\ tasks[a].at = "failed"
                /\ tasks[a].err = (IF variant = "Main"
                                   THEN <<"Error: ", "Permission denied">>
                                   ELSE RealtimeError("NotAllowedError",
                                                      <<"Permission denied">>))
                /\ tasks[a].made = Null
                /\ ~Did(a, "keyOk")
                /\ ~Did(a, "pcNew")
                /\ \A p \in Conn : conns[p].by # a

\* C9 witness: media access was denied to an attempt whose credential request
\* succeeded.
C9_Witness ==
    \E a \in Task :
        /\ Did(a, "mediaFail")
        /\ KeyAccepted(tasks[a].keyRes)
        /\ tasks[a].at = "failed"

\* C10: when the signaling endpoint returns a non-success status, the attempt
\* ends in Error with the status in the error sink, and setRemoteDescription is
\* never invoked for it.
C10_SignalingFailureEndsInError ==
    \A a \in Task :
        (Did(a, "resp") /\ ~ResponseOk(tasks[a].resp)) =>
            /\ Phase(a) = "Error"
            /\ tasks[a].err = AnswerError(tasks[a].resp)
            /\ tasks[a].resp.status \in Range(tasks[a].err)
            /\ ~Did(a, "setRemoteCall")
            /\ \A p \in Conn : conns[p].remoteDesc # tasks[a].offer

\* C10 witness: an attempt received status 500 from the signaling endpoint.
C10_Witness ==
    \E a \in Task : Did(a, "resp") /\ tasks[a].resp.status = "500"


\* C11: within one connection attempt the credential is requested at most once
\* and the signaling POST is issued at most once, and once the attempt has
\* failed it issues no further request.  (Stated of the revisions in which a
\* connect click is the whole attempt: Main, part_001.)
C11_NoRequestRepeated ==
    [][variant # "CrossContext" =>
          \A a \in DOMAIN tasks' :
              /\ CountIn(tasks'[a].ev, "keyStart") <= 1
              /\ CountIn(tasks'[a].ev, "post") <= 1
              /\ (a \in Task /\ tasks[a].at = "failed") =>
                    /\ tasks'[a].at = "failed"
                    /\ CountIn(tasks'[a].ev, "keyStart") = CountIn(tasks[a].ev, "keyStart")
                    /\ CountIn(tasks'[a].ev, "post") = CountIn(tasks[a].ev, "post")]_vars

\* C11 witness: an attempt that requested the key and posted its offer once
\* has failed on the signaling response.
C11_Witness ==
    \E a \in Task :
        /\ variant # "CrossContext"
        /\ tasks[a].at = "failed"
        /\ Did(a, "resp")
        /\ CountIn(tasks[a].ev, "keyStart") = 1
        /\ CountIn(tasks[a].ev, "post") = 1


\* C12: cancelChat invoked while no stream and no transport is held is a no-op:
\* it changes neither localStream, pc, the log, the transcript, the error sink,
\* the mute label, nor any stream or connection.
C12_CancelWhenIdleIsNoOp ==
    [][(CancelChat /\ localStream = Null /\ pc = Null) =>
          UNCHANGED <<localStream, pc, logEl, transcriptEl, errEl, muteBtn,
                      streams, conns, tasks>>]_vars

\* C12 witness: cancel was clicked on a fresh element, and nothing was logged.
C12_Witness ==
    /\ lastCmd = "cancel"
    /\ tasks = <<>>
    /\ logEl = <<>>
    /\ localStream = Null /\ pc = Null


\* C13: from every state, cancelChat invoked twice in a row leaves the same
\* observable state (localStream, pc, log, transcript, error sink, mute label,
\* tracks, connections) as cancelChat invoked once: a cancel step yields
\* CancelResult of the state it started in, and cancelling that again changes
\* nothing.
C13_CancelTwiceIsCancelOnce ==
    [][CancelChat =>
          /\ Obs' = CancelResult(Obs)
          /\ CancelResult(CancelResult(Obs)) = CancelResult(Obs)]_vars

\* C13 witness: cancel has released a stream and a transport, each logged once.
C13_Witness ==
    /\ lastCmd = "cancel"
    /\ CountIn(logEl, "Audio stream canceled.\n") = 1
    /\ CountIn(logEl, "RTCPeerConnection closed.\n") = 1


\* C14: for every held stream, toggleMute invoked twice restores every track's
\* enabled flag, and the number of captured tracks does not change: a toggle
\* step flips the held stream's tracks, and flipping the result gives back the
\* tracks the step started with.
C14_ToggleTwiceRestores ==
    [][(ToggleMute /\ localStream # Null) =>
          /\ localStream' = localStream
          /\ streams'[localStream] = FlipTracks(streams[localStream])
          /\ FlipTracks(streams'[localStream]) = streams[localStream]
          /\ Len(streams'[localStream]) = Len(streams[localStream])
          /\ Len(streams') = Len(streams)]_vars

\* C14 witness: the held stream was toggled twice, its tracks are enabled again.
C14_Witness ==
    /\ localStream # Null
    /\ muteBtn = "Mute"
    /\ Len(streams[localStream]) = MaxTracks
    /\ \A i \in DOMAIN streams[localStream] : streams[localStream][i].enabled

\* C15: toggleMute on a held stream inverts the enabled flag of every track,
\* all tracks end with the same value, and the button label reports that value:
\* "Mute" when the tracks are enabled, "Unmute" when they are disabled.
C15_ToggleFlipsAllAndReports ==
    [][(ToggleMute /\ localStream # Null) =>
          LET before == streams[localStream]
              after  == streams'[localStream]
          IN /\ \A i \in DOMAIN before : after[i].enabled = ~before[i].enabled
             /\ \A i, j \in DOMAIN after : after[i].enabled = after[j].enabled
             /\ \A i \in DOMAIN after : (muteBtn' = "Mute") = after[i].enabled
             /\ muteBtn' \in {"Mute", "Unmute"}]_vars

\* C15 witness: the held stream is muted and the button offers to unmute.
C15_Witness ==
    /\ localStream # Null
    /\ muteBtn = "Unmute"
    /\ \A i \in DOMAIN streams[localStream] : ~streams[localStream][i].enabled

\* C16: toggleMute leaves the session state, the transport, the held-stream
\* reference, the log, the transcript and the error sink unchanged, and when no
\* stream is held it changes nothing at all, the mute label included.
C16_ToggleLeavesSessionAlone ==
    [][ToggleMute =>
          /\ SessionState' = SessionState
          /\ UNCHANGED <<pc, conns, localStream, logEl, transcriptEl, errEl, tasks>>
          /\ localStream = Null => UNCHANGED <<muteBtn, streams>>]_vars

\* C16 witness: the stream of a connected session is muted.
C16_Witness ==
    /\ SessionState = "Connected"
    /\ pc # Null
    /\ muteBtn = "Unmute"


\* The text a sequence of fragments spells: empty fragments add nothing.
Text(s) == SelectSeq(s, LAMBDA x : x # "")

\* The delta field of a message that is a response.text.delta event (<<>> for
\* any other message).
DeltaField(data) ==
    IF JsonParse(data).ok /\ JsonParse(data).type = "response.text.delta"
    THEN <<JsonParse(data).delta>>
    ELSE <<>>

\* C17: within a session the transcript is the concatenation, in arrival order,
\* of the delta fields of the response.text.delta messages received so far:
\* each message appends its delta to the transcript and no other step changes
\* it.  (Stated of the Main revision, the one that keeps a transcript.)
C17_TranscriptIsConcatenation ==
    [][variant = "Main" =>
          /\ \A p \in Conn, data \in DcMessages :
                DcOnMessage(p, data) =>
                    Text(transcriptEl') = Text(transcriptEl \o DeltaField(data))
          /\ (~\E p \in Conn, data \in DcMessages : DcOnMessage(p, data)) =>
                transcriptEl' = transcriptEl]_vars

\* C17 witness: delta "hello" arrived twice, the transcript is "hellohello".
C17_Witness == variant = "Main" /\ transcriptEl = <<"hello", "hello">>

\* C18: for every inbound data channel message whose text is not valid JSON,
\* the handler completes, the raw text is appended verbatim to the log, and
\* the session state, stream, transport and transcript are unchanged.
C18_NonJsonIsLoggedVerbatim ==
    [][\A p \in Conn, data \in DcMessages :
          (DcOnMessage(p, data) /\ ~JsonParse(data).ok) =>
              /\ Len(logEl') = Len(logEl) + 3
              /\ SubSeq(logEl', 1, Len(logEl)) = logEl
              /\ logEl'[Len(logEl) + 2] = data
              /\ SessionState' = SessionState
              /\ UNCHANGED <<localStream, pc, streams, conns, transcriptEl, errEl,
                             tasks>>]_vars

\* C18 witness: the text "hi" arrived on the data channel of the Main revision
\* and is in the log.
C18_Witness ==
    /\ variant = "Main"
    /\ ~JsonParse("hi").ok
    /\ \E i \in DOMAIN logEl :
          /\ i > 1
          /\ logEl[i] = "hi"
          /\ logEl[i - 1] = "Received non-JSON message: "

\* C19: the transcript is reset at the start of each new session: once a
\* session has been cancelled and a new connect has been clicked, the transcript
\* holds no fragment until the new session has a transport to receive one on.
C19_TranscriptResetOnNewSession ==
    (/\ variant = "Main"
     /\ lastCmd = "connect"
     /\ Len(tasks) >= 2
     /\ tasks[Len(tasks)].made = Null
     /\ \A p \in Conn : conns[p].closed) => transcriptEl = <<>>


\* C20: whenever a connection attempt completes successfully (reaches
\* Connected), the error sink is empty, whatever errors earlier attempts
\* surfaced.  (Stated of the revisions whose connect click is the attempt:
\* Main, part_001.)
C20_ErrorSinkClearedOnSuccess ==
    [][variant # "CrossContext" =>
          \A a \in Task :
              (tasks[a].at # "connected" /\ tasks'[a].at = "connected") =>
                  errEl' = <<>>]_vars


\* C21: for every credential payload without an error field, the Bearer value
\* of the signaling request equals the payload's client_secret.value exactly:
\* an attempt that committed its offer with such a payload has sent the request,
\* and with that secret.  (Stated of the revisions that keep the secret in a
\* constant of the attempt: Main, part_001.)
C21_BearerIsPayloadSecret ==
    variant # "CrossContext" =>
        \A a \in Task :
            (/\ tasks[a].payload.error = Absent
             /\ tasks[a].payload.secret # Absent
             /\ Did(a, "setLocalOk")) =>
                /\ Did(a, "post")
                /\ tasks[a].bearer = tasks[a].payload.secret

\* C21 witness: an attempt sent its offer with the secret "ek_1" of a payload
\* that has no error field.
C21_Witness ==
    \E a \in Task :
        /\ variant # "CrossContext"
        /\ Did(a, "post")
        /\ tasks[a].payload = [error |-> Absent, secret |-> "ek_1"]
        /\ tasks[a].bearer = "ek_1"

\* C22: whenever an injected key function is set, requestEphemeralKey invokes
\* it and hands on its result unmodified, and the HTTP fallback is not
\* requested in that attempt, even if the function fails.
C22_InjectedFunctionFirst ==
    [][variant # "CrossContext" =>
          \A a \in DOMAIN tasks' :
              /\ (/\ a \notin Task \/ tasks[a].via = ""
                  /\ tasks'[a].via # ""
                  /\ ephemeralKeyFunction) => tasks'[a].via = "fn"
              /\ (a \in Task /\ tasks[a].via = "fn") =>
                    /\ tasks'[a].via = "fn"
                    /\ tasks'[a].keyRes.kind # "http"
                    /\ "HTTP error: " \notin Range(tasks'[a].err)
                    /\ \A o \in KeyOutcomes("fn") :
                          (StartRealtime(a, o) \/ ConcurrentKey(a, o)) =>
                              /\ o.kind # "http"
                              /\ o.kind = "payload" =>
                                    \/ tasks'[a].payload = o.payload
                                    \/ tasks'[a].keyRes = o]_vars

\* C22 witness: the injected function of an attempt failed, and the attempt
\* ended without a request to the HTTP fallback.
C22_Witness ==
    \E a \in Task :
        /\ tasks[a].via = "fn"
        /\ Did(a, "keyFail")
        /\ tasks[a].at = "failed"
        /\ tasks[a].resp = NoResponse

\* C23: in the cross-context revision every inbound message that has no data
\* or whose type is not EPHEMERAL_KEY is ignored: it changes no state, stores
\* no credential and starts no negotiation.
C23_OtherMessagesIgnored ==
    [][\A m \in WindowMessages :
          (/\ OnWindowMessage(m, MaxAgain)
           /\ ~m.data \/ m.type # "EPHEMERAL_KEY") => UNCHANGED vars]_vars

\* C23 witness: the stream is captured and no key has arrived, so a message
\* taken for a key would start a negotiation.
C23_Witness ==
    /\ variant = "CrossContext"
    /\ localStream # Null
    /\ ephemeralKeyData = NullPayload
    /\ conns = <<>>
    /\ \E m \in WindowMessages : m.data /\ m.type # "EPHEMERAL_KEY"

\* C24: a data channel message that parses but whose type is not
\* response.text.delta, or that carries no delta, is recorded only as a log
\* line: the transcript, session state, stream and transport are unchanged.
C24_OtherEventsOnlyLogged ==
    [][\A p \in Conn, data \in DcMessages :
          (/\ DcOnMessage(p, data)
           /\ JsonParse(data).ok
           /\ \/ JsonParse(data).type # "response.text.delta"
              \/ ~Truthy(JsonParse(data).delta)) =>
              /\ Len(logEl') > Len(logEl)
              /\ SubSeq(logEl', 1, Len(logEl)) = logEl
              /\ SessionState' = SessionState
              /\ UNCHANGED <<transcriptEl, localStream, pc, streams, conns, errEl,
                             tasks>>]_vars

\* C24 witness: a session.created event arrived and is in the log.
C24_Witness ==
    \E i \in DOMAIN logEl :
        /\ i > 1
        /\ logEl[i] = "session.created"
        /\ logEl[i - 1] = "Data channel event: "


\* C25: across any sequence of connect clicks and cancels, at most one peer
\* connection is open at a time, and when cancelChat returns every peer
\* connection the element ever created is closed.  (Stated of the Main
\* revision, the one that has cancelChat.)
C25_AtMostOneOpenTransport ==
    [][variant = "Main" =>
          /\ Cardinality({p \in DOMAIN conns' : ~conns'[p].closed}) <= 1
          /\ CancelChat => \A p \in DOMAIN conns' : conns'[p].closed]_vars

\* C26: across any sequence of connect clicks and cancels, every captured
\* stream is the held localStream or has all its tracks stopped, and when
\* cancelChat returns no captured track is live.  (Stated of the Main revision.)
C26_NoStreamLeftLive ==
    [][variant = "Main" =>
          /\ \A s \in DOMAIN streams' :
                \/ s = localStream'
                \/ \A i \in DOMAIN streams'[s] : streams'[s][i].stopped
          /\ CancelChat =>
                \A s \in DOMAIN streams' :
                    \A i \in DOMAIN streams'[s] : streams'[s][i].stopped]_vars

\* C27: when connection attempts overlap, each attempt's continuation acts only
\* on the transport it created, the answer a transport applies is the response
\* to the offer that transport generated, and a stale attempt never replaces
\* the transport or the stream of a newer attempt.  (Stated of the Main
\* revision.)
C27_AttemptsKeepToTheirOwnTransport ==
    variant = "Main" =>
        /\ \A a \in Task : tasks[a].on \in {Null, tasks[a].made}
        /\ \A p \in Conn :
              /\ conns[p].localDesc \in {Null, p}
              /\ conns[p].remoteDesc \in {Null, p}
        /\ pc # Null => \A b \in Task : tasks[b].made # Null => b <= conns[pc].by
        /\ localStream # Null =>
              \A b \in Task : tasks[b].stream # Null => tasks[b].stream <= localStream


\* C28: whenever a stream is held, the mute button reads "Unmute" if and only
\* if the held stream's audio tracks are disabled, across any sequence of mute,
\* cancel and connect.
C28_MuteLabelMatchesTracks ==
    (variant = "Main" /\ localStream # Null) =>
        \A i \in DOMAIN streams[localStream] :
            (muteBtn = "Unmute") = ~streams[localStream][i].enabled

\* C29: in the cross-context revision a peer connection is created only for a
\* connect click whose media capture has succeeded: a key message that arrives
\* with no click before it, before getUserMedia has resolved, or as a duplicate
\* of a key already handled creates no peer connection.
C29_KeyMessageNeedsCapturedClick ==
    variant = "CrossContext" =>
        /\ \A p \in Conn : tasks[conns[p].by].stream # Null
        /\ Cardinality(Conn) <= Cardinality({c \in Clicks : Did(c, "mediaOk")})


\* C30: provided every external operation eventually settles, every connect
\* attempt eventually terminates, either connected or with an error written to
\* the error sink, never silently.  (Stated of the revisions whose connect
\* click runs the whole attempt: Main, part_001.)
C30_AttemptsTerminateLoudly ==
    /\ \A a \in 1..MaxTasks :
          (variant # "CrossContext" /\ a \in Task) ~>
              (a \in Task /\ \/ tasks[a].at = "connected"
                             \/ tasks[a].at = "failed" /\ tasks[a].err # <<>>)
    /\ [][variant # "CrossContext" =>
             \A a \in DOMAIN tasks' :
                 (/\ tasks'[a].at = "failed"
                  /\ a \in Task => tasks[a].at # "failed") =>
                     /\ errEl' = tasks'[a].err
                     /\ errEl' # <<>>]_vars

\* C30 witness: one attempt has ended connected with an empty error sink;
\* the other way to end is an attempt that failed at the last step, with its
\* error in the sink.
C30_Witness ==
    /\ variant # "CrossContext"
    /\ \E a \in Task :
          \/ tasks[a].at = "connected" /\ errEl = <<>>
          \/ /\ tasks[a].at = "failed"
             /\ Did(a, "setRemoteFail")
             /\ errEl = tasks[a].err
             /\ errEl # <<>>

====
